---- MODULE Spec2Model ----
(***************************************************************************)
(* PrometheusMetricsClient.NodeMetricsAvg                                  *)
(* (pkg/scheduler/metrics/source/metrics_client_prometheus.go).            *)
(*                                                                         *)
(* Query expressions are TLA+ strings.  The text of a query result is a    *)
(* sequence of one-character strings, so that strings.Split, TrimSpace and *)
(* strconv.ParseFloat are computed character by character.                 *)
(***************************************************************************)
EXTENDS Integers, Sequences, FiniteSets, TLC

(* ------------------------------ bounds -------------------------------- *)

\* most rows of a vector result
MaxRows == 2
\* concurrent calls on one fetcher (ConcSpec)
NumCalls == 2

(* ------------------------- program constants -------------------------- *)

promCpuUsageAvg == "cpu_usage_avg"
promMemUsageAvg == "mem_usage_avg"

\* the slice ranged over by the loop of NodeMetricsAvg
MetricsSwapped == <<promMemUsageAvg, promCpuUsageAvg>>
Metrics == <<promCpuUsageAvg, promMemUsageAvg>>

(* ------------------------------ strings ------------------------------- *)

\* strings.Index: position of the first occurrence of sep in s, 0 when absent
RECURSIVE IndexFrom(_, _, _)
IndexFrom(s, sep, i) ==
    IF i + Len(sep) - 1 > Len(s) THEN 0
    ELSE IF SubSeq(s, i, i + Len(sep) - 1) = sep THEN i
    ELSE IndexFrom(s, sep, i + 1)

\* strings.Split(s, sep) for a non-empty sep: always at least one element
RECURSIVE Split(_, _)
Split(s, sep) ==
    LET i == IndexFrom(s, sep, 1)
    IN  IF i = 0 THEN <<s>>
        ELSE <<SubSeq(s, 1, i - 1)>> \o Split(SubSeq(s, i + Len(sep), Len(s)), sep)

WhiteSpace == {" ", "\t", "\n", "\r", "\f"}

RECURSIVE TrimLeft(_)
TrimLeft(s) ==
    IF s # <<>> /\ Head(s) \in WhiteSpace THEN TrimLeft(Tail(s)) ELSE s

RECURSIVE TrimRight(_)
TrimRight(s) ==
    IF s # <<>> /\ s[Len(s)] \in WhiteSpace THEN TrimRight(SubSeq(s, 1, Len(s) - 1)) ELSE s

\* strings.TrimSpace
TrimSpace(s) == TrimRight(TrimLeft(s))

(* ------------------------------ float64 ------------------------------- *)

\* A float64 is zero, a finite decimal m * 10^e (m > 0 without trailing
\* zero) or an infinity.  The model keeps mantissas short, so distinct
\* decimals are distinct float64 values.
Fin(neg, m, e) == [kind |-> "fin", neg |-> neg, m |-> m, e |-> e]
Zero == Fin(FALSE, 0, 0)
Inf(neg) == [kind |-> "inf", neg |-> neg, m |-> 0, e |-> 0]

RECURSIVE Normalize(_, _, _)
Normalize(neg, m, e) ==
    IF m = 0 THEN Zero
    ELSE IF m % 10 = 0 THEN Normalize(neg, m \div 10, e + 1)
    ELSE Fin(neg, m, e)

DigitChars == <<"0", "1", "2", "3", "4", "5", "6", "7", "8", "9">>
IsDigit(c) == \E d \in 1..10 : DigitChars[d] = c
DigitVal(c) == (CHOOSE d \in 1..10 : DigitChars[d] = c) - 1

RECURSIVE Digits(_)
Digits(n) ==
    IF n < 10 THEN <<DigitChars[n + 1]>> ELSE Digits(n \div 10) \o <<DigitChars[(n % 10) + 1]>>

RECURSIVE Zeros(_)
Zeros(n) == IF n <= 0 THEN <<>> ELSE <<"0">> \o Zeros(n - 1)

\* strconv.FormatFloat(v, 'f', -1, 64), the rendering of a SampleValue
FormatFloat(v) ==
    IF v.kind = "inf" THEN (IF v.neg THEN <<"-">> ELSE <<"+">>) \o <<"I", "n", "f">>
    ELSE LET sign == IF v.neg THEN <<"-">> ELSE <<>>
             ds   == Digits(v.m)
         IN  IF v.e >= 0 THEN sign \o ds \o Zeros(v.e)
             ELSE IF Len(ds) > -v.e
                  THEN sign \o SubSeq(ds, 1, Len(ds) + v.e) \o <<".">>
                            \o SubSeq(ds, Len(ds) + v.e + 1, Len(ds))
                  ELSE sign \o <<"0", ".">> \o Zeros(-v.e - Len(ds)) \o ds

\* length of the longest prefix of s made of digits
RECURSIVE DigitRun(_)
DigitRun(s) == IF s # <<>> /\ IsDigit(Head(s)) THEN 1 + DigitRun(Tail(s)) ELSE 0

RECURSIVE ToNat(_)
ToNat(ds) == IF ds = <<>> THEN 0 ELSE 10 * ToNat(SubSeq(ds, 1, Len(ds) - 1)) + DigitVal(ds[Len(ds)])

\* first 17 significant digits of the smallest decimal that rounds to +Inf
MaxFloatDigits == <<"1", "7", "9", "7", "6", "9", "3", "1", "3", "4", "8", "6", "2", "3", "1", "5", "8">>

\* digit strings compared as decimal fractions 0.d1d2d3...
RECURSIVE FracGeq(_, _)
FracGeq(a, b) ==
    IF b = <<>> THEN TRUE
    ELSE IF a = <<>> THEN \A i \in 1..Len(b) : b[i] = "0"
    ELSE IF DigitVal(Head(a)) > DigitVal(Head(b)) THEN TRUE
    ELSE IF DigitVal(Head(a)) < DigitVal(Head(b)) THEN FALSE
    ELSE FracGeq(Tail(a), Tail(b))

ParseOk(v) == [val |-> v, err |-> "nil"]
ErrSyntax == [val |-> Zero, err |-> "ErrSyntax"]
ErrRange(neg) == [val |-> Inf(neg), err |-> "ErrRange"]

\* s without its first n characters
Drop(s, n) == SubSeq(s, n + 1, Len(s))

\* 1 when s starts with a sign
SignLen(s) == IF s # <<>> /\ Head(s) \in {"+", "-"} THEN 1 ELSE 0

\* the exponent part: r follows the mantissa digits ds, nf of them after the
\* decimal point
ParseExp(neg, ds, nf, r) ==
    IF ds = <<>> THEN ErrSyntax
    ELSE IF r = <<>> THEN ParseOk(Normalize(neg, ToNat(ds), -nf))
    ELSE IF Head(r) \notin {"e", "E"} THEN ErrSyntax
    ELSE LET eneg == Len(r) > 1 /\ r[2] = "-"
             es   == Drop(r, 1 + SignLen(Tail(r)))
         IN  IF es = <<>> \/ DigitRun(es) # Len(es) THEN ErrSyntax
             ELSE ParseOk(Normalize(neg, ToNat(ds), (IF eneg THEN -ToNat(es) ELSE ToNat(es)) - nf))

\* the fraction part: r follows the integer digits ip
ParseFrac(neg, ip, r) ==
    IF r # <<>> /\ Head(r) = "."
    THEN LET nf == DigitRun(Tail(r))
         IN  ParseExp(neg, ip \o SubSeq(r, 2, 1 + nf), nf, Drop(r, 1 + nf))
    ELSE ParseExp(neg, ip, 0, r)

\* strconv.ParseFloat(s, 64) on decimal tokens and the infinities: the value
\* and the error it returns.  A syntax error returns 0; a range error returns
\* the infinity of the token's sign; an underflow returns 0 without error.
ParseFloatNoRange(s) ==
    LET neg == s # <<>> /\ Head(s) = "-"
        u   == Drop(s, SignLen(s))
    IN  IF u = <<"I", "n", "f">> THEN ParseOk(Inf(neg))
        ELSE ParseFrac(neg, SubSeq(u, 1, DigitRun(u)), Drop(u, DigitRun(u)))

ParseFloat(s) ==
    LET p == ParseFloatNoRange(s)
        v == p.val
    IN  IF p.err # "nil" \/ v.kind # "fin" \/ v.m = 0 THEN p
        ELSE LET ds  == Digits(v.m)
                 top == Len(ds) + v.e - 1
             IN  IF top > 308 \/ (top = 308 /\ FracGeq(ds, MaxFloatDigits))
                 THEN ErrRange(v.neg)
                 ELSE IF top < -324 THEN ParseOk(Zero)
                 ELSE p

(* ------------------- rendering of a query result ---------------------- *)

\* fmt's %q of a label value
RECURSIVE Quoted(_)
Quoted(s) ==
    IF s = <<>> THEN <<>>
    ELSE (CASE Head(s) = "\"" -> <<"\\", "\"">>
            [] Head(s) = "\\" -> <<"\\", "\\">>
            [] Head(s) = "\n" -> <<"\\", "n">>
            [] OTHER -> <<Head(s)>>) \o Quoted(Tail(s))

\* a sample of an instant vector: one label (instance), a value, a timestamp
Sample(lv, v) == [label |-> lv, value |-> v]

\* the rendering of one row: `{labels} => <value> @[<timestamp>]`
SampleString(s) ==
    <<"{", "i", "=", "\"">> \o Quoted(s.label) \o <<"\"", "}">>
        \o <<" ", "=", ">", " ">> \o FormatFloat(s.value) \o <<" ", "@", "[", "1", "7", "]">>

\* rows joined by a newline
RECURSIVE JoinRows(_)
JoinRows(ss) ==
    IF ss = <<>> THEN <<>>
    ELSE IF Len(ss) = 1 THEN SampleString(ss[1])
    ELSE SampleString(ss[1]) \o <<"\n">> \o JoinRows(Tail(ss))

ValVector == "vector"
ValScalar == "scalar"
ValMatrix == "matrix"
ValString == "string"

\* a pmodel.Value, or the nil interface value
NilValue == [type |-> "nil", samples |-> <<>>, text |-> <<>>]
VectorValue(ss) == [type |-> ValVector, samples |-> ss, text |-> <<>>]
ScalarValue(v) == [type |-> ValScalar, samples |-> <<Sample(<<>>, v)>>, text |-> <<>>]
MatrixValue(ss) == [type |-> ValMatrix, samples |-> ss, text |-> <<>>]
StringValue(t) == [type |-> ValString, samples |-> <<>>, text |-> t]

\* res.String()
ValueString(res) ==
    CASE res.type = ValVector -> JoinRows(res.samples)
      [] res.type = ValScalar ->
            <<"s", "c", "a", "l", "a", "r", ":", " ">> \o FormatFloat(res.samples[1].value)
                \o <<" ", "@", "[", "1", "7", "]">>
      [] res.type = ValMatrix ->
            IF res.samples = <<>> THEN <<>>
            ELSE <<"{", "}", " ", "=", ">", "\n">> \o FormatFloat(res.samples[1].value)
                    \o <<" ", "@", "[", "1", "7", "]">>
      [] res.type = ValString -> res.text
      [] OTHER -> <<>>

\* res.Type()
ValueType(res) == res.type

(* ----------------------- the loop body, lines 72-97 ------------------- *)

NodeMetrics(cpu, mem) == [Cpu |-> cpu, Memory |-> mem]
ZeroMetrics == NodeMetrics(Zero, Zero)

\* `res == nil || res.String() == ""`
NoData(res) == res.type = "nil" \/ ValueString(res) = <<>>

\* `res.Type() != pmodel.ValVector`
SkipTypeNever(res) == FALSE
SkipType(res) == ValueType(res) # ValVector

\* value[0]: the token handed to ParseFloat; <<"panic">> marks the index
\* out of range of rowValues[1] on a row without "=>"
ValueToken(str) ==
    LET firstRowValVector == Split(str, <<"\n">>)[1]
        rowValues == Split(TrimSpace(firstRowValVector), <<"=", ">">>)
    IN  IF Len(rowValues) < 2 THEN [panic |-> TRUE, token |-> <<>>]
        ELSE LET value == Split(TrimSpace(rowValues[2]), <<" ">>)
             IN  [panic |-> FALSE, token |-> value[1]]

\* the switch on metric: the parse error is dropped, the value assigned
Assign(nm, metric, token) ==
    CASE metric = promCpuUsageAvg -> [nm EXCEPT !.Cpu = ParseFloat(token).val]
      [] metric = promMemUsageAvg -> [nm EXCEPT !.Memory = ParseFloat(token).val]
      [] OTHER -> nm

\* one iteration after Query has returned resp = (res, warnings, err): the
\* record afterwards, the tokens parsed, and whether the iteration panicked.
\* err and warnings are only logged.
LoopBody(metric, resp, nm) ==
    IF NoData(resp.res) \/ SkipType(resp.res)
    THEN [nm |-> nm, parsed |-> <<>>, panic |-> FALSE]
    ELSE LET vt == ValueToken(ValueString(resp.res))
         IN  IF vt.panic THEN [nm |-> nm, parsed |-> <<>>, panic |-> TRUE]
             ELSE [nm |-> Assign(nm, metric, vt.token), parsed |-> <<vt.token>>, panic |-> FALSE]

\* `fmt.Sprintf("%s_%s{instance=\"%s\"}", metric, period, nodeName)`
QueryStrSwapped(metric, period, nodeName) ==
    metric \o "_" \o nodeName \o "{instance=\"" \o period \o "\"}"
QueryStr(metric, period, nodeName) ==
    metric \o "_" \o period \o "{instance=\"" \o nodeName \o "\"}"

\* api.NewClient: url.Parse rejects an address with a control character or
\* one whose first path segment starts with a colon
CtlChars == {"\t", "\n", "\r", "\f"}
NewClientErr(address) ==
    \/ \E k \in 1..Len(address) : address[k] \in CtlChars
    \/ (address # <<>> /\ Head(address) = ":")

\* `return nodeMetrics, nil` after the loop
LoopReturnLastErr(nm, lastErr) == [metrics |-> nm, err |-> lastErr]
LoopReturn(nm, lastErr) == [metrics |-> nm, err |-> "nil"]

\* `nodeMetrics := &NodeMetrics{}`: the address of a fresh record
NewRecordShared(h) == 1
NewRecord(h) == Len(h) + 1

(* ------------------------------ inputs -------------------------------- *)

GoodAddresses == {<<"h", "t", "t", "p", ":", "/", "/", "p", ":", "9">>}
BadAddresses == {<<"h", "t", "t", "p", ":", "/", "/", "p", "\t">>, <<":", "9">>}
Confs == {"true", "false"}
NodeNames == {"worker-1", "n2"}
Periods == {"5m", "1h"}

\* label values of the first row: plain ones, and ones that carry "=>"
LvPlain == <<"n", "1">>
LvNewline == <<"n", "\n", "1">>
LvArrow == <<"=", ">", "b">>
LvArrowNum == <<"=", ">", "7", " ">>
LvArrowBig == <<"=", ">", "1", "e", "9", "9", "9", " ">>
LabelValues == {LvPlain, LvNewline, LvArrow, LvArrowNum, LvArrowBig}

Half == Fin(FALSE, 5, -1)
Values == {Half, Fin(FALSE, 12, 1)}

FirstSamples == {Sample(lv, v) : lv \in LabelValues, v \in Values}
TailSamples == {Sample(LvArrowNum, Fin(FALSE, 25, -2))}

RECURSIVE SeqsUpTo(_, _)
SeqsUpTo(S, n) ==
    IF n <= 0 THEN {<<>>}
    ELSE LET shorter == SeqsUpTo(S, n - 1)
         IN  shorter \cup {Append(t, x) : t \in shorter, x \in S}

Vectors ==
    {<<>>} \cup {<<f>> \o t : f \in FirstSamples, t \in SeqsUpTo(TailSamples, MaxRows - 1)}

Results ==
    {NilValue, ScalarValue(Half), MatrixValue(<<Sample(<<>>, Half)>>),
     StringValue(<<>>), StringValue(<<"a", " ", "=", ">", " ", "1">>)}
        \cup {VectorValue(ss) : ss \in Vectors}

Response(res, warnings, err) == [res |-> res, warnings |-> warnings, err |-> err]

\* what v1api.Query can return while the context is live
Responses == {Response(r, w, e) : r \in Results, w \in BOOLEAN, e \in {"nil", "error"}}

\* what it returns once the context is cancelled or past its deadline
Aborted == Response(NilValue, FALSE, "ctx")

\* the responses of the calls that run concurrently
ConcResponses ==
    {Response(NilValue, FALSE, "error"),
     Response(VectorValue(<<Sample(LvPlain, Half)>>), TRUE, "nil")}

Calls == 1..NumCalls

(* ------------------------------- state -------------------------------- *)

VARIABLES
    p,            \* the fetcher: address and conf
    heap,         \* the NodeMetrics records allocated so far
    pc,           \* per call: "idle", "loop", "inflight", "done", "panic"
    args,         \* per call: nodeName and period
    tr,           \* per call: InsecureSkipVerify of its transport
    ctx,          \* per call: "live" or "cancelled"
    nodeMetrics,  \* per call: address of its record, 0 for nil
    idx,          \* per call: position of the loop in Metrics
    sent,         \* per call: the queries issued, in order
    got,          \* per call: the responses received, in order
    parsed,       \* per call: per response, the tokens handed to ParseFloat
    ret,          \* per call: the returned (metrics, err)
    atCancel      \* per call: the responses received and the record, at cancellation

vars == <<p, heap, pc, args, tr, ctx, nodeMetrics, idx, sent, got, parsed, ret, atCancel>>

NoArgs == [nodeName |-> "", period |-> ""]
NoRet == [metrics |-> 0, err |-> "nil"]
NoCancel == [n |-> -1, nm |-> ZeroMetrics]

Init ==
    /\ p \in [address : GoodAddresses \cup BadAddresses, conf : Confs]
    /\ heap = <<>>
    /\ pc = [c \in Calls |-> "idle"]
    /\ args = [c \in Calls |-> NoArgs]
    /\ tr = [c \in Calls |-> FALSE]
    /\ ctx = [c \in Calls |-> "live"]
    /\ nodeMetrics = [c \in Calls |-> 0]
    /\ idx = [c \in Calls |-> 1]
    /\ sent = [c \in Calls |-> <<>>]
    /\ got = [c \in Calls |-> <<>>]
    /\ parsed = [c \in Calls |-> <<>>]
    /\ ret = [c \in Calls |-> NoRet]
    /\ atCancel = [c \in Calls |-> NoCancel]

\* the record a call works on
Rec(c) == IF nodeMetrics[c] \in DOMAIN heap THEN heap[nodeMetrics[c]] ELSE ZeroMetrics

\* lines 50-67: transport, client, and on success the fresh record
Start(c, names, periods) ==
    /\ pc[c] = "idle"
    /\ \E n \in names, per \in periods :
          args' = [args EXCEPT ![c] = [nodeName |-> n, period |-> per]]
    /\ tr' = [tr EXCEPT ![c] = (p.conf = "true")]
    /\ IF NewClientErr(p.address)
       THEN /\ ret' = [ret EXCEPT ![c] = [metrics |-> 0, err |-> "parse"]]
            /\ pc' = [pc EXCEPT ![c] = "done"]
            /\ UNCHANGED <<heap, nodeMetrics>>
       ELSE /\ LET a == NewRecord(heap)
               IN  /\ heap' = [b \in DOMAIN heap \cup {a} |-> IF b = a THEN ZeroMetrics ELSE heap[b]]
                   /\ nodeMetrics' = [nodeMetrics EXCEPT ![c] = a]
            /\ pc' = [pc EXCEPT ![c] = "loop"]
            /\ UNCHANGED ret
    /\ UNCHANGED <<p, ctx, idx, sent, got, parsed, atCancel>>

\* lines 68-71: the next metric's query goes out
QueryIssue(c) ==
    /\ pc[c] = "loop"
    /\ idx[c] <= Len(Metrics)
    /\ LET metric == Metrics[idx[c]]
           queryStr == QueryStr(metric, args[c].period, args[c].nodeName)
       IN  sent' = [sent EXCEPT ![c] = Append(@, [metric |-> metric, query |-> queryStr])]
    /\ pc' = [pc EXCEPT ![c] = "inflight"]
    /\ UNCHANGED <<p, heap, args, tr, ctx, nodeMetrics, idx, got, parsed, ret, atCancel>>

\* lines 71-97: Query returns and the rest of the iteration runs
QueryReturn(c, RS) ==
    /\ pc[c] = "inflight"
    /\ \E resp \in (IF ctx[c] = "cancelled" THEN {Aborted} ELSE RS) :
          LET metric == Metrics[idx[c]]
              out == LoopBody(metric, resp, Rec(c))
          IN  /\ got' = [got EXCEPT ![c] = Append(@, resp)]
              /\ parsed' = [parsed EXCEPT ![c] = Append(@, out.parsed)]
              /\ heap' = [heap EXCEPT ![nodeMetrics[c]] = out.nm]
              /\ pc' = [pc EXCEPT ![c] = IF out.panic THEN "panic" ELSE "loop"]
    /\ idx' = [idx EXCEPT ![c] = @ + 1]
    /\ UNCHANGED <<p, args, tr, ctx, nodeMetrics, sent, ret, atCancel>>

\* line 99
Return(c) ==
    /\ pc[c] = "loop"
    /\ idx[c] > Len(Metrics)
    /\ ret' = [ret EXCEPT ![c] = LoopReturn(nodeMetrics[c], got[c][Len(got[c])].err)]
    /\ pc' = [pc EXCEPT ![c] = "done"]
    /\ UNCHANGED <<p, heap, args, tr, ctx, nodeMetrics, idx, sent, got, parsed, atCancel>>

\* the caller cancels the context, or its deadline passes
Cancel(c) ==
    /\ pc[c] \in {"idle", "loop", "inflight"}
    /\ ctx[c] = "live"
    /\ ctx' = [ctx EXCEPT ![c] = "cancelled"]
    /\ atCancel' = [atCancel EXCEPT ![c] = [n |-> Len(got[c]), nm |-> Rec(c)]]
    /\ UNCHANGED <<p, heap, pc, args, tr, nodeMetrics, idx, sent, got, parsed, ret>>

\* one call
Next ==
    \/ Start(1, NodeNames, Periods)
    \/ QueryIssue(1)
    \/ QueryReturn(1, Responses)
    \/ Return(1)
    \/ Cancel(1)

Spec == Init /\ [][Next]_vars

\* NumCalls calls on the same fetcher, interleaved
ConcNext ==
    \E c \in Calls :
        \/ Start(c, NodeNames, {"5m"})
        \/ QueryIssue(c)
        \/ QueryReturn(c, ConcResponses)
        \/ Return(c)

ConcSpec == Init /\ [][ConcNext]_vars

(* --------------------------- the properties --------------------------- *)

\* the field of the k-th metric of the loop: Cpu first, Memory second
FieldAt(nm, k) == IF k = 1 THEN nm.Cpu ELSE nm.Memory

\* a result without usable data: nil, rendering as the empty string, or not
\* a vector of instantaneous samples
Unusable(res) ==
    \/ res.type \in {"nil", "scalar", "matrix", "string"}
    \/ (res.type = "vector" /\ res.samples = <<>>)

\* a non-empty vector
HasRow(res) == res.type = "vector" /\ res.samples # <<>>

\* the float64 that the value of the first row renders as and parses back to
FirstRowValue(res) == ParseFloat(FormatFloat(res.samples[1].value)).val

\* the loop of lines 68-98 run on its own against the responses resps,
\* from the k-th on
RECURSIVE RunAlone(_, _, _)
RunAlone(resps, k, nm) ==
    IF k > Len(resps) THEN nm
    ELSE RunAlone(resps, k + 1, LoopBody(Metrics[k], resps[k], nm).nm)

\* C1: a call returns a non-nil error exactly when the client cannot be
\* built from the address, and then no record; otherwise, whatever the two
\* queries returned, it returns a record and a nil error, and never panics.
C1_ErrorIffNoClient ==
    \A c \in Calls :
        /\ pc[c] # "panic"
        /\ pc[c] = "done" =>
              IF p.address \in BadAddresses
              THEN ret[c].err # "nil" /\ ret[c].metrics = 0
              ELSE ret[c].err = "nil" /\ ret[c].metrics \in DOMAIN heap

C1_Witness ==
    /\ pc[1] = "done"
    /\ Len(got[1]) = 2
    /\ got[1][1].err = "error" /\ got[1][1].warnings /\ got[1][1].res.type = "scalar"
    /\ HasRow(got[1][2].res) /\ got[1][2].res.samples[1].label = LvArrow
    /\ ret[1].err = "nil" /\ ret[1].metrics # 0

\* C2: whenever the query of a metric returned an error, whatever result
\* came with it, the field of that metric is zero and the loop goes on.
C2_QueryErrorLeavesZero ==
    \A c \in Calls : \A k \in 1..Len(got[c]) :
        got[c][k].err # "nil" => FieldAt(Rec(c), k) = Zero /\ pc[c] # "panic"

\* C3: when both queries returned a non-empty vector without error, Cpu is
\* the parse of the value of the first row of the CPU result and Memory that
\* of the memory result, whatever the labels and the further rows.
C3_FirstRowValues ==
    \A c \in Calls :
        (/\ pc[c] = "done"
         /\ Len(got[c]) = 2
         /\ \A k \in 1..2 : got[c][k].err = "nil" /\ HasRow(got[c][k].res))
        => \A k \in 1..2 : FieldAt(Rec(c), k) = FirstRowValue(got[c][k].res)

\* C4: whenever ParseFloat fails on the token of a metric, that metric's
\* field is exactly zero, and the returned error is nil.
C4_ParseFailureLeavesZero ==
    \A c \in Calls : \A k \in 1..Len(parsed[c]) :
        (parsed[c][k] # <<>> /\ ParseFloat(parsed[c][k][1]).err # "nil")
        => /\ FieldAt(Rec(c), k) = Zero
           /\ pc[c] = "done" => ret[c].err = "nil"

\* C5: when one metric's query gave no usable data (nil, empty, query error,
\* non-vector, unparseable token) and the other's a valid vector sample, the
\* first field is zero and the other holds its parsed value.
C5_FieldsIndependent ==
    \A c \in Calls : \A k \in 1..2 :
        LET o == 3 - k
        IN  (/\ pc[c] = "done"
             /\ Len(got[c]) = 2
             /\ \/ Unusable(got[c][k].res)
                \/ got[c][k].err # "nil"
                \/ (parsed[c][k] # <<>> /\ ParseFloat(parsed[c][k][1]).err # "nil")
             /\ got[c][o].err = "nil" /\ HasRow(got[c][o].res)
             /\ got[c][o].res.samples[1].label \in {LvPlain, LvNewline})
            => /\ FieldAt(Rec(c), k) = Zero
               /\ FieldAt(Rec(c), o) = FirstRowValue(got[c][o].res)

\* C6: a result that is nil, renders as the empty string or is not a vector
\* leaves the metric's field zero, has no part of its text parsed, and the
\* loop moves on.
C6_UnusableSkipped ==
    \A c \in Calls : \A k \in 1..Len(got[c]) :
        (Unusable(got[c][k].res) \/ ValueString(got[c][k].res) = <<>>)
        => /\ parsed[c][k] = <<>>
           /\ FieldAt(Rec(c), k) = Zero
           /\ pc[c] # "panic"
           /\ idx[c] > k

C6_Witness ==
    /\ pc[1] = "done"
    /\ Len(got[1]) = 2
    /\ got[1][1].res.type = "scalar" /\ got[1][1].err = "nil"
    /\ got[1][2].res = StringValue(<<"a", " ", "=", ">", " ", "1">>)
    /\ Rec(1) = ZeroMetrics

\* C7: every query sent is <metric>_<period>{instance="<nodeName>"} with the
\* call's period and node name, the metric being cpu_usage_avg or
\* mem_usage_avg; for worker-1, 5m and cpu_usage_avg it is
\* cpu_usage_avg_5m{instance="worker-1"}.
C7_QueryString ==
    \A c \in Calls : \A k \in 1..Len(sent[c]) :
        LET q == sent[c][k]
        IN  /\ q.metric \in {"cpu_usage_avg", "mem_usage_avg"}
            /\ q.query = q.metric \o "_" \o args[c].period \o "{instance=\""
                            \o args[c].nodeName \o "\"}"
            /\ (args[c] = [nodeName |-> "worker-1", period |-> "5m"] /\ q.metric = "cpu_usage_avg")
                  => q.query = "cpu_usage_avg_5m{instance=\"worker-1\"}"

C7_Witness ==
    /\ Len(sent[1]) = 2
    /\ args[1] = [nodeName |-> "worker-1", period |-> "5m"]
    /\ sent[1][1].query = "cpu_usage_avg_5m{instance=\"worker-1\"}"
    /\ sent[1][2].query = "mem_usage_avg_5m{instance=\"worker-1\"}"

\* C8: concurrent calls are independent: no step changes the fetcher, the
\* records of distinct calls are distinct, a record is written only by a
\* step of its own call, and at every moment the record of a call is what
\* the call run alone on the responses it received would have computed; a
\* call that cannot build its client returns no record.
C8_CallsIndependent ==
    [][/\ p' = p
       /\ \A c \in Calls :
             /\ nodeMetrics'[c] # 0 =>
                   /\ nodeMetrics'[c] \in DOMAIN heap'
                   /\ heap'[nodeMetrics'[c]] = RunAlone(got'[c], 1, ZeroMetrics)
                   /\ \A d \in Calls \ {c} : nodeMetrics'[d] # nodeMetrics'[c]
             /\ (pc'[c] = "done" /\ nodeMetrics'[c] # 0) =>
                   ret'[c] = [metrics |-> nodeMetrics'[c], err |-> "nil"]
             /\ (pc'[c] = "done" /\ nodeMetrics'[c] = 0) => ret'[c].metrics = 0
       /\ \A a \in DOMAIN heap :
             heap'[a] # heap[a] =>
                \E c \in Calls : nodeMetrics[c] = a /\ pc[c] = "inflight" /\ pc'[c] = "loop"
      ]_vars

C8_Witness ==
    /\ pc[1] = "done" /\ pc[2] = "done"
    /\ nodeMetrics[1] = 2 /\ nodeMetrics[2] = 1
    /\ heap[ret[1].metrics] = NodeMetrics(Half, Zero)
    /\ heap[ret[2].metrics] = NodeMetrics(Zero, Half)

\* C9: a call sends at most two queries, the CPU query first and the memory
\* query second, at most one in flight and the next only after the previous
\* has returned; none when the client cannot be built.
C9_SequentialQueries ==
    \A c \in Calls :
        /\ Len(sent[c]) <= 2
        /\ \A k \in 1..Len(sent[c]) :
              sent[c][k].metric = (IF k = 1 THEN "cpu_usage_avg" ELSE "mem_usage_avg")
        /\ Len(sent[c]) = Len(got[c]) + (IF pc[c] = "inflight" THEN 1 ELSE 0)
        /\ p.address \in BadAddresses => sent[c] = <<>>
        /\ pc[c] = "done" /\ p.address \in GoodAddresses => Len(sent[c]) = 2

C9_Witness ==
    /\ pc[1] = "done"
    /\ Len(sent[1]) = 2
    /\ got[1][1].err = "error" /\ got[1][1].res = NilValue
    /\ got[1][2].err = "error"

\* C10: on the return of a call whose context was cancelled before or
\* during a query, the error is nil, every metric whose query had not completed successfully before the
\* cancellation has field zero, and a field populated before the
\* cancellation keeps its value.
C10_CancelledReturn ==
    \A c \in Calls :
        (pc[c] = "done" /\ ctx[c] = "cancelled" /\ nodeMetrics[c] # 0 /\ atCancel[c].n < 2)
        => /\ ret[c].err = "nil"
           /\ \A k \in 1..2 :
                 /\ ~(k <= atCancel[c].n /\ got[c][k].err = "nil") => FieldAt(Rec(c), k) = Zero
                 /\ k <= atCancel[c].n => FieldAt(Rec(c), k) = FieldAt(atCancel[c].nm, k)

====
